---- MODULE Spec2Model ----
(***************************************************************************)
(* A model of LessonsStorage (src/lessons-storage.js): one process-wide    *)
(* instance, an IndexedDB provider with the object stores "lessons" and    *)
(* "metadata", the localStorage entry 'aiLessons', and the asynchronous    *)
(* public operations with every `await` as a suspension point.             *)
(*                                                                         *)
(* A task is one invoked async call: callers 1..NumCallers invoke the      *)
(* public operations, and task Mig(c) is the migrateFromLocalStorage run   *)
(* started by the onsuccess handler of the open request that caller c's    *)
(* init() issued.  Requests to an object store are served in the order     *)
(* they were issued (lessonsQ, metaQ); a request takes effect and fires    *)
(* its onsuccess/onerror handler in one step.                              *)
(***************************************************************************)
EXTENDS Naturals, Sequences, FiniteSets

\* ---------------------------------------------------------------- bounds
NumCallers == 2
NumIds == 2
NumVals == 2
MaxLen == 2
MaxCalls == 2
MaxReloads == 1
MaxFaults == 1
\* localStorage capacity, in the size units of Size (a record's size is its v)
LSCapacity == 3

Callers == 1..NumCallers
Mig(c) == NumCallers + c
MigIds == {Mig(c) : c \in Callers}
TaskIds == Callers \cup MigIds
Ids == 1..NumIds
Vals == 1..NumVals

\* a lesson record: only `id` is interpreted; v stands for the rest of it
Rec(id, v) == [id |-> id, v |-> v]
Records == {Rec(id, v) : id \in Ids, v \in Vals}

RECURSIVE SeqsUpTo(_)
SeqsUpTo(n) ==
    IF n = 0 THEN {<<>>}
    ELSE LET S == SeqsUpTo(n - 1)
         IN  S \cup {Append(s, r) : s \in {x \in S : Len(x) = n - 1}, r \in Records}

\* the arrays callers pass to saveAllLessons: empty, one record, two records
\* that fit localStorage, two that do not, and one id twice
SaveAllInputs ==
    {s \in SeqsUpTo(MaxLen) :
        \/ Len(s) <= 1 /\ \A k \in 1..Len(s) : s[k] = Rec(1, 2)
        \/ Len(s) = 2 /\ s[1] = Rec(1, 1) /\ s[2].v = 2
        \/ Len(s) = 2 /\ s[1] = Rec(2, 2) /\ s[2] = Rec(1, 2)}

\* ------------------------------------------------------------ variables
VARIABLES
    hasIDB,        \* window.indexedDB is present
    db,            \* this.db
    useIndexedDB,  \* this.useIndexedDB
    initialized,   \* this.initialized
    openCount,     \* calls of indexedDB.open in this process
    lessons,       \* object store "lessons": id -> v, 0 when no record
    metadata,      \* object store "metadata": key -> value
    aiLessons,     \* localStorage entry 'aiLessons'
    lessonsQ,      \* tasks with a request outstanding on "lessons", oldest first
    metaQ,         \* tasks with a request outstanding on "metadata", oldest first
    tasks,         \* the async calls in flight, and the last result of each slot
    calls,         \* public operations invoked so far
    reloads,       \* page loads after the first
    faults         \* provider requests that ended in an error event so far

vars == <<hasIDB, db, useIndexedDB, initialized, openCount, lessons, metadata,
          aiLessons, lessonsQ, metaQ, tasks, calls, reloads, faults>>

Null == "null"
Handle == "LessonsDB"
Undefined == "undefined"
MetaKeys == {"migrated", "pref"}

\* ------------------------------------------------- localStorage and JSON
Absent == [kind |-> "absent", arr |-> <<>>]
Corrupt == [kind |-> "corrupt", arr |-> <<>>]
JSONstringify(arr) == [kind |-> "json", arr |-> arr]

RECURSIVE Size(_)
Size(arr) == IF arr = <<>> THEN 0 ELSE Head(arr).v + Size(Tail(arr))

\* localStorage.setItem throws QuotaExceededError when the value does not fit
SetItemFits(arr) == Size(arr) <= LSCapacity

\* array.findIndex(i => i.id === item.id): 0 stands for -1
FindIndex(arr, id) ==
    IF \E k \in 1..Len(arr) : arr[k].id = id
    THEN CHOOSE k \in 1..Len(arr) :
            arr[k].id = id /\ \A j \in 1..(k - 1) : arr[j].id # id
    ELSE 0

UpsertAppend(arr, item) == Append(arr, item)
Upsert(arr, item) ==
    LET index == FindIndex(arr, item.id)
    IN  IF index >= 1 THEN [arr EXCEPT ![index] = item] ELSE Append(arr, item)

Filter(arr, id) == SelectSeq(arr, LAMBDA l : l.id # id)

\* store.getAll(): the records in ascending key order
RECURSIVE AllFrom(_, _)
AllFrom(store, k) ==
    IF k > NumIds THEN <<>>
    ELSE IF store[k] = 0 THEN AllFrom(store, k + 1)
    ELSE <<Rec(k, store[k])>> \o AllFrom(store, k + 1)
GetAll(store) == AllFrom(store, 1)

EmptyStore == [k \in Ids |-> 0]
AsSet(arr) == {arr[k] : k \in 1..Len(arr)}
StoreSet(store) == {Rec(k, store[k]) : k \in {j \in Ids : store[j] # 0}}

\* -------------------------------------------------------------- tasks
Idle == [op |-> "none", pc |-> "idle", id |-> 0, v |-> 0, arr |-> <<>>,
         i |-> 0, st |-> "none", val |-> "none", via |-> "none"]

PublicOps == {"saveLesson", "getAllLessons", "getLesson", "deleteLesson",
              "saveAllLessons", "saveMetadata", "getMetadata", "getStorageInfo"}

Args(op) ==
    CASE op = "saveLesson" -> {[id |-> r.id, v |-> r.v, arr |-> <<>>] : r \in Records}
      [] op \in {"getLesson", "deleteLesson"} ->
            {[id |-> k, v |-> 0, arr |-> <<>>] : k \in Ids}
      [] op = "saveAllLessons" ->
            {[id |-> 0, v |-> 0, arr |-> s] : s \in SaveAllInputs}
      [] OTHER -> {[id |-> 0, v |-> 0, arr |-> <<>>]}

\* the branch every operation takes after `await this.init()`
UseIDB == useIndexedDB /\ db # Null

Resolved(tk, val, arr) ==
    [tk EXCEPT !.pc = "done", !.st = "ok", !.val = val, !.arr = arr, !.i = 0]
Rejected(tk, val) ==
    [tk EXCEPT !.pc = "done", !.st = "err", !.val = val, !.arr = <<>>, !.i = 0]


\* saveToLocalStorage(storageKey, item, true): the new entry, or the error thrown
SaveToLocalStorageStoresAnyway(ls, item) ==
    IF ls.kind = "corrupt"
    THEN [st |-> "err", val |-> "SyntaxError", ls |-> ls]
    ELSE LET array == IF ls.kind = "absent" THEN <<>> ELSE ls.arr
             new == Upsert(array, item)
         IN  IF SetItemFits(new)
             THEN [st |-> "ok", val |-> "true", ls |-> JSONstringify(new)]
             ELSE [st |-> "err", val |-> "QuotaExceeded", ls |-> JSONstringify(new)]
SaveToLocalStorage(ls, item) ==
    IF ls.kind = "corrupt"
    THEN [st |-> "err", val |-> "SyntaxError", ls |-> ls]
    ELSE LET array == IF ls.kind = "absent" THEN <<>> ELSE ls.arr
             new == Upsert(array, item)
         IN  IF SetItemFits(new)
             THEN [st |-> "ok", val |-> "true", ls |-> JSONstringify(new)]
             ELSE [st |-> "err", val |-> "QuotaExceeded", ls |-> ls]

\* ------------------------------------------------------ small step helpers
Put(t, tk) == tasks' = [tasks EXCEPT ![t] = tk]
Local(t, tk) == Put(t, tk) /\ UNCHANGED <<lessonsQ, metaQ, aiLessons>>
IssueLessons(t, pc) ==
    /\ lessonsQ' = Append(lessonsQ, t)
    /\ Put(t, [tasks[t] EXCEPT !.pc = pc])
    /\ UNCHANGED <<metaQ, aiLessons>>
IssueMeta(t, pc) ==
    /\ metaQ' = Append(metaQ, t)
    /\ Put(t, [tasks[t] EXCEPT !.pc = pc])
    /\ UNCHANGED <<lessonsQ, aiLessons>>

\* ------------------------------------------------------------- init()
\* init() up to its return or to indexedDB.open: the caller then awaits it
InitPc == IF initialized \/ ~hasIDB THEN "ready" ELSE "waitOpen"
InitVia == IF initialized THEN "memo" ELSE IF ~hasIDB THEN "absent" ELSE "pending"
init(t, tk) ==
    /\ IF initialized
       THEN UNCHANGED <<useIndexedDB, initialized, openCount>>
       ELSE IF ~hasIDB
            THEN /\ useIndexedDB' = FALSE
                 /\ initialized' = TRUE
                 /\ UNCHANGED openCount
            ELSE /\ openCount' = openCount + 1
                 /\ UNCHANGED <<useIndexedDB, initialized>>
    /\ Put(t, [tk EXCEPT !.pc = InitPc, !.via = InitVia])

\* a caller invokes a public operation; it runs to its `await this.init()`
Invoke(c, op, a) ==
    /\ tasks[c].pc \in {"idle", "done"}
    /\ calls' = calls + 1
    /\ init(c, [Idle EXCEPT !.op = op, !.id = a.id, !.v = a.v, !.arr = a.arr])
    /\ UNCHANGED <<hasIDB, db, lessons, metadata, aiLessons, lessonsQ, metaQ, reloads, faults>>

\* migrateFromLocalStorage() up to its first await: getMetadata('migrated')
\* has called init(), which returned at once because initialized is true
MigStart == [Idle EXCEPT !.op = "migrate", !.pc = "ready", !.via = "memo"]

\* request.onerror of the open request
OnOpenErrorKeepsBackend(t) ==
    /\ initialized' = TRUE
    /\ Put(t, [tasks[t] EXCEPT !.pc = "ready", !.via = "error"])
    /\ UNCHANGED <<db, useIndexedDB>>
OnOpenError(t) ==
    /\ useIndexedDB' = FALSE
    /\ initialized' = TRUE
    /\ Put(t, [tasks[t] EXCEPT !.pc = "ready", !.via = "error"])
    /\ UNCHANGED db

\* request.onsuccess of the open request
OnOpenSuccess(t) ==
    /\ db' = Handle
    /\ initialized' = TRUE
    /\ tasks' = [tasks EXCEPT ![t] = [@ EXCEPT !.pc = "ready", !.via = "success"],
                              ![Mig(t)] = MigStart]
    /\ UNCHANGED useIndexedDB

\* the provider ends a request with its success event, or with its error event
Outcome(ok) ==
    /\ ok \/ faults < MaxFaults
    /\ faults' = IF ok THEN faults ELSE faults + 1

\* the open request of caller t's init() completes
OpenEvent(t, ok) ==
    /\ t \in Callers
    /\ tasks[t].pc = "waitOpen"
    /\ Outcome(ok)
    /\ IF ok THEN OnOpenSuccess(t) ELSE OnOpenError(t)
    /\ UNCHANGED <<hasIDB, openCount, lessons, metadata, aiLessons, lessonsQ, metaQ,
                   calls, reloads>>


\* --------------------------------------------------- migrateFromLocalStorage
MigFailed(tk, val) == [tk EXCEPT !.pc = "done", !.st = "err", !.val = val]
MigFinished(tk, val) == [tk EXCEPT !.pc = "done", !.st = "ok", !.val = val]

\* from `if (migrated) return` to the next await, `migrated` being falsy:
\* read and parse the legacy entry, then call saveLesson or saveMetadata
MigrateCopy(tk) ==
    IF aiLessons.kind = "corrupt" THEN MigFailed(tk, "SyntaxError")
    ELSE IF aiLessons.kind = "absent" \/ aiLessons.arr = <<>>
         THEN [tk EXCEPT !.pc = "flagReady"]
         ELSE [tk EXCEPT !.pc = "putReady", !.arr = aiLessons.arr, !.i = 1]

\* `await this.saveLesson(lesson)` resolved: the next lesson, or saveMetadata
MigrateNextSkipsLast(tk) ==
    IF tk.i + 1 < Len(tk.arr)
    THEN [tk EXCEPT !.pc = "putReady", !.i = tk.i + 1]
    ELSE [tk EXCEPT !.pc = "flagReady"]
MigrateNext(tk) ==
    IF tk.i < Len(tk.arr)
    THEN [tk EXCEPT !.pc = "putReady", !.i = tk.i + 1]
    ELSE [tk EXCEPT !.pc = "flagReady"]

\* `await this.saveLesson(lesson)` rejected: the catch block logs the error
MigrateSaveFailedContinues(tk, val) == [MigrateNext(tk) EXCEPT !.st = "err", !.val = val]
MigrateSaveFailed(tk, val) == MigFailed(tk, val)

\* ------------------------------------------------------- saveAllLessons
\* the for loop of the transactional branch: the next saveLesson, or return true
SaveAllNextSkipsLast(tk) ==
    IF tk.i + 1 < Len(tk.arr)
    THEN [tk EXCEPT !.pc = "putReady", !.i = tk.i + 1]
    ELSE [tk EXCEPT !.pc = "done", !.st = "ok", !.val = "true", !.i = 0]
SaveAllNext(tk) ==
    IF tk.i < Len(tk.arr)
    THEN [tk EXCEPT !.pc = "putReady", !.i = tk.i + 1]
    ELSE [tk EXCEPT !.pc = "done", !.st = "ok", !.val = "true", !.i = 0]

\* the fallback branch: localStorage.setItem('aiLessons', JSON.stringify(lessons))
SaveAllFallbackWritesFirst(t) ==
    LET tk == tasks[t]
    IN  /\ aiLessons' = JSONstringify(tk.arr)
        /\ Put(t, IF SetItemFits(tk.arr)
                  THEN [tk EXCEPT !.pc = "done", !.st = "ok", !.val = "true", !.i = 0]
                  ELSE Rejected(tk, "QuotaExceeded"))
        /\ UNCHANGED <<lessonsQ, metaQ>>
SaveAllFallback(t) ==
    LET tk == tasks[t]
    IN  IF SetItemFits(tk.arr)
        THEN /\ aiLessons' = JSONstringify(tk.arr)
             /\ Put(t, [tk EXCEPT !.pc = "done", !.st = "ok", !.val = "true", !.i = 0])
             /\ UNCHANGED <<lessonsQ, metaQ>>
        ELSE Local(t, Rejected(tk, "QuotaExceeded"))

\* ------------------------------- a nested getAllLessons() has returned arr
GetAllReturn(tk, arr) ==
    CASE tk.op = "getLesson" ->
            IF FindIndex(arr, tk.id) >= 1
            THEN Resolved(tk, "record", <<arr[FindIndex(arr, tk.id)]>>)
            ELSE Resolved(tk, "undefined", <<>>)
      [] tk.op = "deleteLesson" ->
            [tk EXCEPT !.pc = "writeReady", !.arr = Filter(arr, tk.id)]
      [] OTHER -> Resolved(tk, tk.val, arr)

\* the fallback branch of getAllLessons, called by getLesson, deleteLesson
\* or getStorageInfo
GetAllFallbackNested(tk) ==
    IF aiLessons.kind = "corrupt" THEN Rejected(tk, "SyntaxError")
    ELSE GetAllReturn(tk, aiLessons.arr)

\* -------------------------- the code after an `await this.init()` resumes
SaveLessonFallback(t, tk, item, okTask, errTask) ==
    LET r == SaveToLocalStorage(aiLessons, item)
    IN  /\ aiLessons' = r.ls
        /\ Put(t, IF r.st = "ok" THEN okTask ELSE errTask)
        /\ UNCHANGED <<lessonsQ, metaQ>>

DispatchSaveLesson(t) ==
    LET tk == tasks[t]
    IN  IF UseIDB THEN IssueLessons(t, "req")
        ELSE SaveLessonFallback(t, tk, Rec(tk.id, tk.v), Resolved(tk, "true", <<>>),
                                Rejected(tk, SaveToLocalStorage(aiLessons, Rec(tk.id, tk.v)).val))

DispatchGetAllLessons(t) ==
    LET tk == tasks[t]
    IN  IF UseIDB THEN IssueLessons(t, "req")
        ELSE IF aiLessons.kind = "corrupt" THEN Local(t, Rejected(tk, "SyntaxError"))
        ELSE Local(t, Resolved(tk, "array", aiLessons.arr))

DispatchGetLesson(t) ==
    IF tasks[t].pc = "ready"
    THEN IF UseIDB THEN IssueLessons(t, "req")
         ELSE Local(t, [tasks[t] EXCEPT !.pc = "subReady"])
    ELSE IF UseIDB THEN IssueLessons(t, "subReq")
         ELSE Local(t, GetAllFallbackNested(tasks[t]))

DispatchSaveAllLessons(t) ==
    LET tk == tasks[t]
    IN  IF tk.pc = "ready"
        THEN IF UseIDB THEN IssueLessons(t, "req") ELSE SaveAllFallback(t)
        ELSE \* the saveLesson(lesson) of the loop
             IF UseIDB THEN IssueLessons(t, "putReq")
             ELSE SaveLessonFallback(t, tk, tk.arr[tk.i], SaveAllNext(tk),
                                     Rejected(tk, SaveToLocalStorage(aiLessons, tk.arr[tk.i]).val))

DispatchDeleteLesson(t) ==
    LET tk == tasks[t]
    IN  CASE tk.pc = "ready" ->
                IF UseIDB THEN IssueLessons(t, "req")
                ELSE Local(t, [tk EXCEPT !.pc = "subReady"])
          [] tk.pc = "subReady" ->
                IF UseIDB THEN IssueLessons(t, "subReq")
                ELSE Local(t, GetAllFallbackNested(tk))
          [] OTHER -> \* `return this.saveAllLessons(filtered)` after its init()
                IF UseIDB
                THEN /\ lessonsQ' = Append(lessonsQ, t)
                     /\ Put(t, [tk EXCEPT !.op = "saveAllLessons", !.pc = "req"])
                     /\ UNCHANGED <<metaQ, aiLessons>>
                ELSE SaveAllFallback(t)

DispatchSaveMetadata(t) ==
    IF UseIDB THEN IssueMeta(t, "req")
    ELSE Local(t, Resolved(tasks[t], "true", <<>>))

DispatchGetMetadata(t) ==
    IF UseIDB THEN IssueMeta(t, "req")
    ELSE Local(t, Resolved(tasks[t], "null", <<>>))

DispatchGetStorageInfoByHandle(t) ==
    LET tk == tasks[t]
    IN  IF tk.pc = "ready"
        THEN Local(t, [tk EXCEPT !.pc = "subReady",
                                 !.val = IF db # Null THEN "IndexedDB" ELSE "LocalStorage"])
        ELSE IF UseIDB THEN IssueLessons(t, "subReq")
             ELSE Local(t, GetAllFallbackNested(tk))
DispatchGetStorageInfo(t) ==
    LET tk == tasks[t]
    IN  IF tk.pc = "ready"
        THEN Local(t, [tk EXCEPT !.pc = "subReady",
                                 !.val = IF useIndexedDB THEN "IndexedDB" ELSE "LocalStorage"])
        ELSE IF UseIDB THEN IssueLessons(t, "subReq")
             ELSE Local(t, GetAllFallbackNested(tk))

DispatchMigrate(t) ==
    LET tk == tasks[t]
    IN  CASE tk.pc = "ready" -> \* getMetadata('migrated')
                IF UseIDB THEN IssueMeta(t, "req") ELSE Local(t, MigrateCopy(tk))
          [] tk.pc = "putReady" -> \* saveLesson(lesson)
                IF UseIDB THEN IssueLessons(t, "putReq")
                ELSE SaveLessonFallback(t, tk, tk.arr[tk.i], MigrateNext(tk),
                        MigrateSaveFailed(tk, SaveToLocalStorage(aiLessons, tk.arr[tk.i]).val))
          [] OTHER -> \* saveMetadata('migrated', true)
                IF UseIDB THEN IssueMeta(t, "flagReq")
                ELSE Local(t, MigFinished(tk, "migrated"))

ReadyPcs == {"ready", "subReady", "putReady", "writeReady", "flagReady"}

Dispatch(t) ==
    /\ tasks[t].pc \in ReadyPcs
    /\ CASE tasks[t].op = "saveLesson" -> DispatchSaveLesson(t)
         [] tasks[t].op = "getAllLessons" -> DispatchGetAllLessons(t)
         [] tasks[t].op = "getLesson" -> DispatchGetLesson(t)
         [] tasks[t].op = "deleteLesson" -> DispatchDeleteLesson(t)
         [] tasks[t].op = "saveAllLessons" -> DispatchSaveAllLessons(t)
         [] tasks[t].op = "saveMetadata" -> DispatchSaveMetadata(t)
         [] tasks[t].op = "getMetadata" -> DispatchGetMetadata(t)
         [] tasks[t].op = "getStorageInfo" -> DispatchGetStorageInfo(t)
         [] OTHER -> DispatchMigrate(t)
    /\ UNCHANGED <<hasIDB, db, useIndexedDB, initialized, openCount, lessons, metadata,
                   calls, reloads, faults>>


\* ----------------------------- a request on "lessons" fires onsuccess/onerror
StorePut(store, r) == [store EXCEPT ![r.id] = r.v]
StoreDelete(store, id) == [store EXCEPT ![id] = 0]

\* the task after the handler of its request on "lessons" has run
LessonsHandlerRejectsReads(tk, ok) ==
    CASE tk.op = "saveLesson" ->
            IF ok THEN Resolved(tk, "true", <<>>) ELSE Rejected(tk, "putError")
      [] tk.op = "getAllLessons" ->
            IF ok THEN Resolved(tk, "array", GetAll(lessons)) ELSE Rejected(tk, "getAllError")
      [] tk.op = "getLesson" /\ tk.pc = "req" ->
            IF ~ok THEN Rejected(tk, "getError")
            ELSE IF lessons[tk.id] # 0
                 THEN Resolved(tk, "record", <<Rec(tk.id, lessons[tk.id])>>)
                 ELSE Resolved(tk, "undefined", <<>>)
      [] tk.op = "deleteLesson" /\ tk.pc = "req" ->
            IF ok THEN Resolved(tk, "true", <<>>) ELSE Rejected(tk, "deleteError")
      [] tk.op = "saveAllLessons" /\ tk.pc = "req" ->
            IF ~ok THEN [tk EXCEPT !.pc = "hung"]
            ELSE SaveAllNext(tk)
      [] tk.op = "saveAllLessons" /\ tk.pc = "putReq" ->
            IF ok THEN SaveAllNext(tk) ELSE Rejected(tk, "putError")
      [] tk.op = "migrate" ->
            IF ok THEN MigrateNext(tk) ELSE MigrateSaveFailed(tk, "putError")
      [] OTHER ->
            GetAllReturn(tk, IF ok THEN GetAll(lessons) ELSE <<>>)
LessonsHandler(tk, ok) ==
    CASE tk.op = "saveLesson" ->
            IF ok THEN Resolved(tk, "true", <<>>) ELSE Rejected(tk, "putError")
      [] tk.op = "getAllLessons" ->
            IF ok THEN Resolved(tk, "array", GetAll(lessons)) ELSE Resolved(tk, "array", <<>>)
      [] tk.op = "getLesson" /\ tk.pc = "req" ->
            IF ~ok THEN Resolved(tk, "null", <<>>)
            ELSE IF lessons[tk.id] # 0
                 THEN Resolved(tk, "record", <<Rec(tk.id, lessons[tk.id])>>)
                 ELSE Resolved(tk, "undefined", <<>>)
      [] tk.op = "deleteLesson" /\ tk.pc = "req" ->
            IF ok THEN Resolved(tk, "true", <<>>) ELSE Rejected(tk, "deleteError")
      [] tk.op = "saveAllLessons" /\ tk.pc = "req" ->
            \* clearRequest has no onerror handler: the promise stays pending
            IF ~ok THEN [tk EXCEPT !.pc = "hung"]
            ELSE SaveAllNext(tk)
      [] tk.op = "saveAllLessons" /\ tk.pc = "putReq" ->
            IF ok THEN SaveAllNext(tk) ELSE Rejected(tk, "putError")
      [] tk.op = "migrate" ->
            IF ok THEN MigrateNext(tk) ELSE MigrateSaveFailed(tk, "putError")
      [] OTHER -> \* the getAllLessons() called by another operation
            GetAllReturn(tk, IF ok THEN GetAll(lessons) ELSE <<>>)

\* the store after the request has been served
LessonsEffectKeepsOld(tk, ok) ==
    IF ~ok THEN lessons
    ELSE CASE tk.op = "saveLesson" -> StorePut(lessons, Rec(tk.id, tk.v))
           [] tk.op = "deleteLesson" /\ tk.pc = "req" -> StoreDelete(lessons, tk.id)
           [] tk.op \in {"saveAllLessons", "migrate"} /\ tk.pc = "putReq" ->
                StorePut(lessons, tk.arr[tk.i])
           [] OTHER -> lessons
LessonsEffect(tk, ok) ==
    IF ~ok THEN lessons
    ELSE CASE tk.op = "saveLesson" -> StorePut(lessons, Rec(tk.id, tk.v))
           [] tk.op = "deleteLesson" /\ tk.pc = "req" -> StoreDelete(lessons, tk.id)
           [] tk.op = "saveAllLessons" /\ tk.pc = "req" -> EmptyStore
           [] tk.op \in {"saveAllLessons", "migrate"} /\ tk.pc = "putReq" ->
                StorePut(lessons, tk.arr[tk.i])
           [] OTHER -> lessons

LessonsEvent(ok) ==
    /\ lessonsQ # <<>>
    /\ Outcome(ok)
    /\ LET t == Head(lessonsQ)
       IN  /\ lessons' = LessonsEffect(tasks[t], ok)
           /\ Put(t, LessonsHandler(tasks[t], ok))
    /\ lessonsQ' = Tail(lessonsQ)
    /\ UNCHANGED <<hasIDB, db, useIndexedDB, initialized, openCount, metadata, aiLessons,
                   metaQ, calls, reloads>>

\* ---------------------------- a request on "metadata" fires onsuccess/onerror
MetaHandler(tk, ok) ==
    CASE tk.op = "saveMetadata" ->
            IF ok THEN Resolved(tk, "true", <<>>) ELSE Rejected(tk, "putError")
      [] tk.op = "getMetadata" ->
            IF ok THEN Resolved(tk, metadata["pref"], <<>>) ELSE Resolved(tk, "null", <<>>)
      [] tk.pc = "req" -> \* migrate: `const migrated = await this.getMetadata('migrated')`
            IF ok /\ metadata["migrated"] = "true"
            THEN MigFinished(tk, "skipped")
            ELSE MigrateCopy(tk)
      [] OTHER -> \* migrate: `await this.saveMetadata('migrated', true)`
            IF ok THEN MigFinished(tk, "migrated") ELSE MigFailed(tk, "flagError")

MetaEffect(tk, ok) ==
    IF ~ok THEN metadata
    ELSE CASE tk.op = "saveMetadata" -> [metadata EXCEPT !["pref"] = "true"]
           [] tk.op = "migrate" /\ tk.pc = "flagReq" -> [metadata EXCEPT !["migrated"] = "true"]
           [] OTHER -> metadata

MetaEvent(ok) ==
    /\ metaQ # <<>>
    /\ Outcome(ok)
    /\ LET t == Head(metaQ)
       IN  /\ metadata' = MetaEffect(tasks[t], ok)
           /\ Put(t, MetaHandler(tasks[t], ok))
    /\ metaQ' = Tail(metaQ)
    /\ UNCHANGED <<hasIDB, db, useIndexedDB, initialized, openCount, lessons, aiLessons,
                   lessonsQ, calls, reloads>>

\* ------------------------------------------------ a new process lifetime
\* the page is loaded again: `new LessonsStorage()`; what the two providers
\* persisted stays, every call in flight is gone with the old page
Reload ==
    /\ reloads < MaxReloads
    /\ reloads' = reloads + 1
    /\ db' = Null
    /\ useIndexedDB' = TRUE
    /\ initialized' = FALSE
    /\ openCount' = 0
    /\ tasks' = [t \in TaskIds |-> Idle]
    /\ lessonsQ' = <<>>
    /\ metaQ' = <<>>
    /\ UNCHANGED <<hasIDB, lessons, metadata, aiLessons, calls, faults>>

\* ------------------------------------------------------ specification
LegacyInit ==
    {Absent, Corrupt, JSONstringify(<<>>), JSONstringify(<<Rec(1, 1)>>),
     JSONstringify(<<Rec(1, 1), Rec(2, 1)>>)}

Constructed ==
    /\ db = Null
    /\ useIndexedDB = TRUE
    /\ initialized = FALSE
    /\ openCount = 0
    /\ lessonsQ = <<>>
    /\ metaQ = <<>>
    /\ tasks = [t \in TaskIds |-> Idle]
    /\ calls = 0
    /\ reloads = 0
    /\ faults = 0

Init ==
    /\ Constructed
    /\ hasIDB \in BOOLEAN
    /\ lessons = EmptyStore
    /\ metadata = [k \in MetaKeys |-> Undefined]
    /\ aiLessons \in LegacyInit

\* what the callers of a scenario invoke: a set of [op, a]
Call(op, a) == [op |-> op, a |-> a]
Arg(id, v, arr) == [id |-> id, v |-> v, arr |-> arr]
\* every public operation, one argument each
NoArg == Arg(0, 0, <<>>)
AnyOp ==
    {Call("saveLesson", Arg(1, 2, <<>>)), Call("getAllLessons", NoArg),
     Call("getLesson", Arg(1, 0, <<>>)), Call("deleteLesson", Arg(1, 0, <<>>)),
     Call("saveAllLessons", Arg(0, 0, <<Rec(2, 1)>>)), Call("saveMetadata", NoArg),
     Call("getMetadata", NoArg), Call("getStorageInfo", NoArg)}

Internal ==
    \/ \E t \in TaskIds : Dispatch(t)
    \/ \E t \in Callers, ok \in BOOLEAN : OpenEvent(t, ok)
    \/ \E ok \in BOOLEAN : LessonsEvent(ok)
    \/ \E ok \in BOOLEAN : MetaEvent(ok)

Next ==
    \/ \E c \in Callers, w \in AnyOp : calls < MaxCalls /\ Invoke(c, w.op, w.a)
    \/ Internal
    \/ Reload

Spec == Init /\ [][Next]_vars


\* ------------------------------------------------------------ scenarios
InternalOK ==
    \/ \E t \in TaskIds : Dispatch(t)
    \/ \E t \in Callers : OpenEvent(t, TRUE)
    \/ LessonsEvent(TRUE)
    \/ MetaEvent(TRUE)

\* Migration without provider failures and without caller writes: the
\* transactional store is present and empty, the legacy entry holds N records
ReadOnly ==
    {Call("getAllLessons", NoArg), Call("getLesson", Arg(1, 0, <<>>)),
     Call("getMetadata", NoArg), Call("getStorageInfo", NoArg)}

InitMig ==
    /\ Constructed
    /\ hasIDB = TRUE
    /\ lessons = EmptyStore
    /\ metadata = [k \in MetaKeys |-> Undefined]
    /\ aiLessons \in LegacyInit \ {Corrupt}

NextMig ==
    \/ \E c \in Callers, w \in ReadOnly : calls < MaxCalls /\ Invoke(c, w.op, w.a)
    \/ InternalOK

\* every request the providers hold is eventually answered, and every
\* continuation that is ready to run eventually runs
SpecMig == InitMig /\ [][NextMig]_vars /\ WF_vars(InternalOK)

\* saveLesson of records with the ids 1..NumIds, one call each and every
\* save succeeding, then getAllLessons; the open requests may fail
InitEmpty ==
    /\ Constructed
    /\ hasIDB \in BOOLEAN
    /\ lessons = EmptyStore
    /\ metadata = [k \in MetaKeys |-> Undefined]
    /\ aiLessons = Absent

InvokeSaveNext(c) ==
    /\ calls < NumIds
    /\ Invoke(c, "saveLesson", Arg(calls + 1, 1, <<>>))

InvokeGetAllAfter(c) ==
    /\ calls = NumIds
    /\ \A t \in TaskIds : tasks[t].pc \in {"idle", "done"}
    /\ Invoke(c, "getAllLessons", NoArg)

NextSaves ==
    \/ \E c \in Callers : InvokeSaveNext(c)
    \/ \E c \in Callers : InvokeGetAllAfter(c)
    \/ \E t \in TaskIds : Dispatch(t)
    \/ \E t \in Callers, ok \in BOOLEAN : OpenEvent(t, ok)
    \/ LessonsEvent(TRUE)
    \/ MetaEvent(TRUE)

SpecSaves == InitEmpty /\ [][NextSaves]_vars

\* saveLesson, deleteLesson and getAllLessons with every argument
Crud ==
    {Call(op, a) : op \in {"saveLesson"}, a \in Args("saveLesson")}
        \cup {Call(op, a) : op \in {"deleteLesson"}, a \in Args("deleteLesson")}
        \cup {Call("getAllLessons", NoArg)}

NextCrud ==
    \/ \E c \in Callers, w \in Crud : calls < MaxCalls /\ Invoke(c, w.op, w.a)
    \/ Internal

SpecCrud == Init /\ [][NextCrud]_vars

\* the same calls with every provider request succeeding
NextCrudOK ==
    \/ \E c \in Callers, w \in Crud : calls < MaxCalls /\ Invoke(c, w.op, w.a)
    \/ InternalOK

SpecCrudOK == Init /\ [][NextCrudOK]_vars

\* a later process lifetime: the "lessons" store holds a record of an earlier
\* one, the legacy entry may still be there, the migration may have run
InitBulk ==
    /\ Constructed
    /\ hasIDB \in BOOLEAN
    /\ lessons = StorePut(EmptyStore, Rec(NumIds, 1))
    /\ metadata \in {[k \in MetaKeys |-> Undefined],
                     [k \in MetaKeys |-> IF k = "migrated" THEN "true" ELSE Undefined]}
    /\ aiLessons \in {Absent, JSONstringify(<<Rec(1, 1)>>)}

\* the first call is a saveAllLessons, every later call a getAllLessons
InvokeBulk(c) ==
    /\ calls = 0
    /\ \E a \in Args("saveAllLessons") : Invoke(c, "saveAllLessons", a)

InvokeReader(c) ==
    /\ calls \in 1..(MaxCalls - 1)
    /\ Invoke(c, "getAllLessons", NoArg)

NextBulk ==
    \/ \E c \in Callers : InvokeBulk(c)
    \/ \E c \in Callers : InvokeReader(c)
    \/ Internal

SpecBulk == InitBulk /\ [][NextBulk]_vars

\* every public operation, no reload; every continuation that is ready runs
\* and every request issued to a provider fires its success or error event
NextLive ==
    \/ \E c \in Callers, w \in AnyOp : calls < MaxCalls /\ Invoke(c, w.op, w.a)
    \/ Internal

SpecLive == Init /\ [][NextLive]_vars /\ WF_vars(Internal)


\* ---------------------------------------------------------------- claims
MigRuns == {m \in MigIds : tasks[m].op = "migrate"}

\* the saveLesson calls of migration run tk that have resolved
SavesDone(tk) ==
    CASE tk.pc \in {"putReady", "putReq"} -> tk.i - 1
      [] tk.pc \in {"flagReady", "flagReq"} -> Len(tk.arr)
      [] tk.pc = "done" /\ tk.val \in {"migrated", "flagError"} -> Len(tk.arr)
      [] tk.pc = "done" /\ tk.val \in {"putError", "QuotaExceeded"} -> tk.i - 1
      [] OTHER -> 0

\* C1: with the transactional store API present, indexedDB.open is invoked
\* at most once in a process lifetime, however many public operations are
\* invoked before the first initialization has completed.
C1_SingleOpen == openCount <= 1

\* C2: once initialized is true, useIndexedDB keeps the value it had when
\* initialized became true, in every later state of the process.
C2_BackendFixed == [][(initialized /\ initialized') => (useIndexedDB' = useIndexedDB)]_vars

\* the "lessons" store holds exactly the legacy records and the flag is set
MigrationComplete ==
    /\ StoreSet(lessons) = AsSet(aiLessons.arr)
    /\ Cardinality(StoreSet(lessons)) = Len(aiLessons.arr)
    /\ metadata["migrated"] = "true"

\* C3: with a legacy entry of N records with distinct ids (or none), an empty
\* transactional store, no provider failures and no caller writes, once an
\* open request has succeeded the "lessons" store eventually holds exactly
\* those N records and the migrated flag is true.
C3_MigrationCompletes == (db # Null) ~> MigrationComplete

C3_Witness == db # Null /\ MigrationComplete /\ Len(aiLessons.arr) = 2

\* the migrated flag is never cleared once it is true
C4_FlagKept == [][(metadata["migrated"] = "true") => (metadata'["migrated"] = "true")]_vars

\* C4: the migrated flag is only ever unset or true, and no two migration
\* runs both copy legacy records: the legacy data is copied at most once.
C4_CopiedOnce ==
    /\ metadata["migrated"] \in {Undefined, "true"}
    /\ Cardinality({m \in MigRuns : SavesDone(tasks[m]) >= 1}) <= 1

\* C5 as stated: a migration run whose save of a legacy record failed has
\* still attempted every record of the array and set the migrated flag.
C5_ContinuesAfterFailure ==
    \A m \in MigRuns :
        (tasks[m].pc = "done" /\ tasks[m].val = "putError")
            => (tasks[m].i = Len(tasks[m].arr) /\ metadata["migrated"] = "true")

\* C5 amended: a migration run whose save of a legacy record failed stops at
\* that record: the error is caught and logged, the run is finished, it has
\* no request outstanding, and no later record was attempted by it.
C5_StopsAtFailure ==
    \A m \in MigRuns :
        (tasks[m].st = "err" /\ tasks[m].val = "putError")
            => /\ tasks[m].pc = "done"
               /\ tasks[m].i \in 1..Len(tasks[m].arr)
               /\ SavesDone(tasks[m]) = tasks[m].i - 1
               /\ \A k \in 1..Len(lessonsQ) : lessonsQ[k] # m
               /\ \A k \in 1..Len(metaQ) : metaQ[k] # m

C5_Witness ==
    \E m \in MigRuns :
        /\ tasks[m].st = "err" /\ tasks[m].val = "putError"
        /\ tasks[m].i < Len(tasks[m].arr)
        /\ metadata["migrated"] = Undefined

\* C6: the promise of init() never rejects.  A call whose init() found the
\* API absent or whose open request failed continues with useIndexedDB false
\* and initialized true; one whose open request succeeded continues with the
\* connection handle stored and initialized true; a call still waiting for
\* its open request has not been rejected.
C6_InitNeverRejects ==
    \A t \in Callers :
        /\ tasks[t].via \in {"absent", "error"} => (~useIndexedDB /\ initialized)
        /\ tasks[t].via = "success" => (db = Handle /\ initialized)
        /\ tasks[t].via = "memo" => initialized
        /\ tasks[t].via = "pending" <=> tasks[t].pc = "waitOpen"
        /\ tasks[t].pc = "waitOpen" => tasks[t].st = "none"

C6_Witness ==
    \E t, u \in Callers :
        /\ tasks[t].via = "error" /\ tasks[t].pc = "done"
        /\ tasks[u].via = "success" /\ tasks[u].pc = "done"

\* C7: after a failed migration every CRUD operation still dispatches to
\* the transactional backend.
C7_FailedMigrationKeepsBackend ==
    \A m \in MigRuns : (tasks[m].pc = "done" /\ tasks[m].st = "err") => UseIDB


\* C8: after saveLesson calls with pairwise distinct ids (here the records
\* Rec(1, 1) .. Rec(NumIds, 1), into empty stores) have all resolved, a
\* getAllLessons call returns exactly those records.
C8_GetAllReturnsSaved ==
    \A c \in Callers :
        (tasks[c].op = "getAllLessons" /\ tasks[c].pc = "done")
            => /\ tasks[c].st = "ok"
               /\ AsSet(tasks[c].arr) = {Rec(k, 1) : k \in Ids}
               /\ Len(tasks[c].arr) = NumIds

\* the step in which caller t's operation op resolves
Resolves(t, op) ==
    /\ tasks[t].op = op
    /\ tasks[t].pc # "done"
    /\ tasks'[t].pc = "done"
    /\ tasks'[t].st = "ok"

\* C9: a saveLesson of a record whose id is already stored replaces that
\* record, leaves the number of stored records unchanged and leaves every
\* record with another id as it was, in the store of either backend.
C9_SaveReplaces ==
    [][\A t \in Callers :
        Resolves(t, "saveLesson") =>
            LET r == Rec(tasks[t].id, tasks[t].v)
                old == aiLessons.arr
                new == aiLessons'.arr
            IN  IF tasks[t].pc = "req"
                THEN lessons[r.id] # 0 =>
                        /\ lessons'[r.id] = r.v
                        /\ Cardinality(StoreSet(lessons')) = Cardinality(StoreSet(lessons))
                        /\ \A k \in Ids \ {r.id} : lessons'[k] = lessons[k]
                ELSE FindIndex(old, r.id) >= 1 =>
                        /\ aiLessons'.kind = "json"
                        /\ Len(new) = Len(old)
                        /\ \A k \in 1..Len(old) :
                              new[k] = IF old[k].id = r.id THEN r ELSE old[k]
    ]_vars

C9_Witness ==
    \E t, u \in Callers :
        /\ t # u
        /\ tasks[t].op = "saveLesson" /\ tasks[t].pc = "done" /\ tasks[t].st = "ok"
        /\ tasks[u].op = "saveLesson" /\ tasks[u].pc = "done" /\ tasks[u].st = "ok"
        /\ tasks[t].id = tasks[u].id /\ tasks[t].v # tasks[u].v
        /\ db = Null /\ ~useIndexedDB
        /\ Len(aiLessons.arr) = 2
        /\ Cardinality({k \in 1..2 : aiLessons.arr[k].id = tasks[t].id}) = 1

\* C10: a deleteLesson(id) that resolves has removed the record with that
\* id from the store of the active backend and has left every other stored
\* record unchanged; with no record of that id the collection is unchanged.
C10_DeleteFrame ==
    [][\A t \in Callers :
        Resolves(t, "deleteLesson") =>
            IF tasks[t].pc = "req"
            THEN lessons' = [lessons EXCEPT ![tasks[t].id] = 0]
            ELSE aiLessons'.arr = SelectSeq(aiLessons.arr, LAMBDA l : l.id # tasks[t].id)
    ]_vars

\* C11: on the fallback backend a saveAllLessons call whose array does not fit
\* localStorage rejects with the quota-exceeded error, and the step in which it
\* does so leaves the value stored under 'aiLessons' as it was.
C11_QuotaLeavesValue ==
    [][\A t \in Callers :
        (/\ tasks[t].op = "saveAllLessons" /\ tasks[t].pc = "ready"
         /\ ~UseIDB /\ ~SetItemFits(tasks[t].arr)
         /\ tasks'[t] # tasks[t])
            => /\ tasks'[t].pc = "done" /\ tasks'[t].st = "err"
               /\ tasks'[t].val = "QuotaExceeded"
               /\ aiLessons' = aiLessons
    ]_vars

C11_Witness ==
    \E t \in Callers :
        /\ tasks[t].op = "saveAllLessons" /\ tasks[t].pc = "done"
        /\ tasks[t].st = "err" /\ tasks[t].val = "QuotaExceeded"
        /\ ~useIndexedDB
        /\ aiLessons = JSONstringify(<<Rec(1, 1)>>)

\* C12: on the transactional backend a read never rejects: the handler of a
\* getAllLessons, getLesson or getMetadata request resolves the call; on the
\* request's error event with the empty array, null and null, and a getLesson
\* of an id that is not stored resolves with undefined.
C12_ReadsNeverReject ==
    [][\A t \in Callers :
        (/\ tasks[t].op \in {"getAllLessons", "getLesson", "getMetadata"}
         /\ tasks[t].pc = "req"
         /\ tasks'[t] # tasks[t]
         /\ reloads' = reloads)
            => /\ tasks'[t].pc = "done" /\ tasks'[t].st = "ok"
               /\ faults' > faults =>
                    /\ tasks'[t].arr = <<>>
                    /\ tasks[t].op # "getAllLessons" => tasks'[t].val = "null"
               /\ (faults' = faults /\ tasks[t].op = "getLesson" /\ lessons[tasks[t].id] = 0)
                    => (tasks'[t].val = "undefined" /\ tasks'[t].arr = <<>>)
    ]_vars

C12_Witness ==
    \E t, u \in Callers :
        /\ tasks[t].op = "getLesson" /\ tasks[t].pc = "done"
        /\ tasks[t].st = "ok" /\ tasks[t].val = "null"
        /\ tasks[u].op = "saveLesson" /\ tasks[u].pc = "done" /\ tasks[u].st = "ok"
        /\ lessons[tasks[t].id] # 0

\* C13: on the transactional backend a provider failure in a write step of
\* saveLesson, deleteLesson or saveAllLessons (the clear and every put)
\* rejects the call: the step in which the request fails ends the call with
\* an error.
C13_WriteFailureRejects ==
    [][\A t \in Callers :
        (/\ tasks[t].op \in {"saveLesson", "deleteLesson", "saveAllLessons"}
         /\ tasks[t].pc \in {"req", "putReq"}
         /\ tasks'[t] # tasks[t]
         /\ faults' > faults
         /\ reloads' = reloads)
            => (tasks'[t].pc = "done" /\ tasks'[t].st = "err")
    ]_vars

\* C14: every invoked public operation eventually resolves or rejects, when
\* every request issued to a provider eventually fires its success or its
\* error event.
C14_EveryCallCompletes ==
    \A t \in Callers :
        (tasks[t].pc \notin {"idle", "done"}) ~> (tasks[t].pc \in {"idle", "done"})

\* C15: whenever initialized is true, useIndexedDB is true exactly when the
\* operations dispatch to the transactional store (useIndexedDB and a
\* connection handle), so initialized and useIndexedDB imply a handle; and
\* the type getStorageInfo reports is 'IndexedDB' exactly when they dispatch
\* to the transactional store and 'LocalStorage' exactly when they do not.
C15_ReportsActiveBackend ==
    /\ [](initialized => ((useIndexedDB <=> UseIDB) /\ (useIndexedDB => db # Null)))
    /\ [][\A t \in Callers :
            (/\ tasks[t].op = "getStorageInfo" /\ tasks[t].pc = "ready"
             /\ tasks'[t] # tasks[t]
             /\ reloads' = reloads)
                => /\ initialized
                   /\ tasks'[t].val = "IndexedDB" <=> UseIDB
                   /\ tasks'[t].val = "LocalStorage" <=> ~UseIDB
       ]_vars

C15_Witness ==
    \E t \in Callers :
        /\ tasks[t].op = "getStorageInfo" /\ tasks[t].pc = "done" /\ tasks[t].st = "ok"
        /\ tasks[t].val = "LocalStorage"
        /\ db # Null /\ initialized

\* the records a collection keyed by id holds after the records of arr were
\* stored into an empty one in order: of a repeated id, the last occurrence
LastOccurrences(arr) ==
    {arr[k] : k \in {j \in 1..Len(arr) :
                        \A m \in (j + 1)..Len(arr) : arr[m].id # arr[j].id}}

\* no migration run has stored a record
NoMigrationSave == \A m \in MigRuns : SavesDone(tasks[m]) = 0

\* C16: on the transactional backend, once saveAllLessons(records) has
\* resolved, with no other caller write (the scenario's only write is this
\* call) and no migration save, the "lessons" store holds exactly the input
\* records, of a repeated id the last one, and no record stored before.
C16_SaveAllReplacesAll ==
    \A t \in Callers :
        (/\ tasks[t].op = "saveAllLessons" /\ tasks[t].pc = "done" /\ tasks[t].st = "ok"
         /\ UseIDB
         /\ NoMigrationSave)
            => StoreSet(lessons) = LastOccurrences(tasks[t].arr)

C16_Witness ==
    \E t \in Callers :
        /\ tasks[t].op = "saveAllLessons" /\ tasks[t].pc = "done" /\ tasks[t].st = "ok"
        /\ UseIDB /\ NoMigrationSave
        /\ tasks[t].arr = <<Rec(1, 1), Rec(1, 2)>>
        /\ StoreSet(lessons) = {Rec(1, 2)}

\* C17: saveAllLessons on the transactional backend is not atomic: a
\* getAllLessons served between the clear and the last put of a
\* saveAllLessons(records) call, with no other writer, returns exactly the
\* records put so far, a strict prefix of the input (empty before the first
\* put), whatever the store held before the call.
C17_ReaderSeesPrefix ==
    [][\A t, u \in Callers :
        (/\ tasks[t].op = "saveAllLessons" /\ tasks[t].pc \in {"putReady", "putReq"}
         /\ UseIDB /\ NoMigrationSave
         /\ tasks[u].op = "getAllLessons" /\ tasks[u].pc = "req"
         /\ tasks'[u].pc = "done"
         /\ faults' = faults)
            => /\ tasks[t].i - 1 < Len(tasks[t].arr)
               /\ AsSet(tasks'[u].arr) =
                      LastOccurrences(SubSeq(tasks[t].arr, 1, tasks[t].i - 1))
    ]_vars

\* a reader got the first of two input records, which is neither what the
\* store held before the call (the record with id NumIds) nor the input
C17_Witness ==
    \E t, u \in Callers :
        /\ tasks[t].op = "saveAllLessons" /\ tasks[t].pc \in {"putReady", "putReq"}
        /\ tasks[t].arr = <<Rec(1, 1), Rec(2, 2)>> /\ tasks[t].i = 2
        /\ UseIDB /\ NoMigrationSave /\ faults = 0
        /\ tasks[u].op = "getAllLessons" /\ tasks[u].pc = "done"
        /\ tasks[u].arr = <<Rec(1, 1)>>

\* C18: on the transactional backend a put of the migration leaves the record
\* of a resolved caller saveLesson(r) as it is, while the store still holds r
\* under r.id, and does not create a record under an id whose deleteLesson
\* has resolved and which the store does not hold.
C18_MigrationKeepsCallerWrites ==
    [][\A m \in MigIds :
        (/\ tasks[m].op = "migrate" /\ tasks[m].pc = "putReq"
         /\ tasks'[m] # tasks[m]
         /\ UseIDB)
            => \A t \in Callers :
                 (tasks[t].pc = "done" /\ tasks[t].st = "ok") =>
                    /\ (tasks[t].op = "saveLesson" /\ lessons[tasks[t].id] = tasks[t].v)
                          => lessons'[tasks[t].id] = tasks[t].v
                    /\ (tasks[t].op = "deleteLesson" /\ lessons[tasks[t].id] = 0)
                          => lessons'[tasks[t].id] = 0
    ]_vars

\* C19: on the fallback backend, once a deleteLesson(a) and a saveLesson(r)
\* with r.id # a have both resolved, however their steps were interleaved,
\* the 'aiLessons' array holds r and no record with id a.
C19_ConcurrentSaveKept ==
    \A t, u \in Callers :
        (/\ tasks[t].op = "deleteLesson" /\ tasks[t].pc = "done" /\ tasks[t].st = "ok"
         /\ tasks[u].op = "saveLesson" /\ tasks[u].pc = "done" /\ tasks[u].st = "ok"
         /\ tasks[u].id # tasks[t].id
         /\ initialized /\ ~useIndexedDB /\ db = Null)
            => /\ aiLessons.kind = "json"
               /\ Rec(tasks[u].id, tasks[u].v) \in AsSet(aiLessons.arr)
               /\ \A k \in 1..Len(aiLessons.arr) : aiLessons.arr[k].id # tasks[t].id

\* C20: on the fallback backend a saveLesson whose resulting array (the
\* stored records of the other ids and the new record) does not fit
\* localStorage rejects with the quota-exceeded error, and the step in which
\* it does so leaves the value stored under 'aiLessons' as it was.
C20_SaveQuotaLeavesValue ==
    [][\A t \in Callers :
        (/\ tasks[t].op = "saveLesson" /\ tasks[t].pc = "ready"
         /\ ~UseIDB
         /\ aiLessons.kind # "corrupt"
         /\ Size(SelectSeq(aiLessons.arr, LAMBDA l : l.id # tasks[t].id)) + tasks[t].v
                > LSCapacity
         /\ tasks'[t] # tasks[t])
            => /\ tasks'[t].pc = "done" /\ tasks'[t].st = "err"
               /\ tasks'[t].val = "QuotaExceeded"
               /\ aiLessons' = aiLessons
    ]_vars

C20_Witness ==
    \E t \in Callers :
        /\ tasks[t].op = "saveLesson" /\ tasks[t].pc = "done"
        /\ tasks[t].st = "err" /\ tasks[t].val = "QuotaExceeded"
        /\ ~useIndexedDB
        /\ Len(aiLessons.arr) = 1
        /\ aiLessons.arr[1].id # tasks[t].id

====
